---- MODULE Spec2Model ----
(***************************************************************************)
(* A model of the msp430-asm decoder: the operand parser (operand.rs), the *)
(* operand and instruction size functions, the emulation recognizer        *)
(* (two_operand.rs, emulate.rs), the jump offset fix-up (jxx.rs) and the   *)
(* addr-taking decode of lib.rs.  Rust enum values are modelled as tagged  *)
(* tuples, Result/Option as <<"Ok", x>>, <<"Err", e>>, <<"Some", x>>,      *)
(* <<"None">>; a panic is the outcome <<"Panic", message>>.                *)
(***************************************************************************)
EXTENDS Integers, Sequences, FiniteSets, TLC

VARIABLES pc, data, addr, register, source, result, prev

vars == <<pc, data, addr, register, source, result, prev>>

(***************************************************************************)
(* Bounds of the model.                                                    *)
(***************************************************************************)
\* longest operand tail handed to parse_source / parse_destination
MaxTail == 3

\* byte values the operand tails are drawn from
ByteSample == {0, 128, 251, 254, 255}

\* register numbers handed to the parsers: every encodable register and
\* two values a u8 can hold that no instruction word encodes
RegisterInputs == (0 .. 15) \cup {16, 255}

\* addressing-mode values handed to the parsers: every AS value, and two
\* values a u16 can hold that no instruction word encodes
SourceInputs == (0 .. 3) \cup {4, 65535}

RECURSIVE SeqsUpTo(_, _)
SeqsUpTo(S, n) ==
    IF n = 0 THEN {<<>>}
    ELSE LET shorter == SeqsUpTo(S, n - 1)
         IN  shorter \cup {Append(s, b) : s \in {t \in shorter : Len(t) = n - 1}, b \in S}

Tails == SeqsUpTo(ByteSample, MaxTail)

(***************************************************************************)
(* Rust values.                                                            *)
(***************************************************************************)
Ok(x) == <<"Ok", x>>
Err(e) == <<"Err", e>>
Some(x) == <<"Some", x>>
None == <<"None">>
Panic(msg) == <<"Panic", msg>>

IsOk(r) == r[1] = "Ok"
IsErr(r) == r[1] = "Err"

\* enum Operand
RegisterDirect(r) == <<"RegisterDirect", r>>
Indexed(r, i) == <<"Indexed", r, i>>
RegisterIndirect(r) == <<"RegisterIndirect", r>>
RegisterIndirectAutoIncrement(r) == <<"RegisterIndirectAutoIncrement", r>>
Symbolic(i) == <<"Symbolic", i>>
Immediate(u) == <<"Immediate", u>>
Absolute(u) == <<"Absolute", u>>
Constant(i) == <<"Constant", i>>

\* enum DecodeError
MissingSource == <<"MissingSource">>
MissingDestination == <<"MissingDestination">>
InvalidSource(s, r) == <<"InvalidSource", s, r>>
InvalidDestination(s, r) == <<"InvalidDestination", s, r>>
MissingInstruction == <<"MissingInstruction">>
InvalidOpcode(o) == <<"InvalidOpcode", o>>
InvalidJumpCondition(c) == <<"InvalidJumpCondition", c>>

\* enum OperandWidth
Byte == "Byte"
Word == "Word"

(***************************************************************************)
(* Integer conversions.                                                    *)
(***************************************************************************)
\* u16::from_le_bytes on the first two bytes of a slice
u16_from_le_bytes(bytes) == bytes[1] + 256 * bytes[2]

\* `as i16` on a u16: two's complement reinterpretation
as_i16(v) == IF v >= 32768 THEN v - 65536 ELSE v

\* i16::from_le_bytes
i16_from_le_bytes(bytes) == as_i16(u16_from_le_bytes(bytes))

\* data.split_at(2): the first two bytes and the rest
split_at_2(d) == <<SubSeq(d, 1, 2), SubSeq(d, 3, Len(d))>>

(***************************************************************************)
(* operand.rs                                                              *)
(***************************************************************************)
\* a size function that believes the doc comment on RegisterIndirect
\* ("This requires an additional word")
OperandSizeDocComment(operand) ==
    CASE operand[1] = "RegisterDirect" -> 0
      [] operand[1] = "Indexed" -> 2
      [] operand[1] = "RegisterIndirect" -> 2
      [] operand[1] = "RegisterIndirectAutoIncrement" -> 0
      [] operand[1] = "Symbolic" -> 2
      [] operand[1] = "Immediate" -> 2
      [] operand[1] = "Absolute" -> 2
      [] operand[1] = "Constant" -> 0

\* Operand::size
OperandSize(operand) ==
    CASE operand[1] = "RegisterDirect" -> 0
      [] operand[1] = "Indexed" -> 2
      [] operand[1] = "RegisterIndirect" -> 0
      [] operand[1] = "RegisterIndirectAutoIncrement" -> 0
      [] operand[1] = "Symbolic" -> 2
      [] operand[1] = "Immediate" -> 2
      [] operand[1] = "Absolute" -> 2
      [] operand[1] = "Constant" -> 0

\* impl From<u8> for OperandWidth
OperandWidthFrom(val) ==
    CASE val = 0 -> Word
      [] val = 1 -> Byte
      [] OTHER -> Panic("unreachable")

\* the extension word of Symbolic and Indexed kept unsigned
source_word_unsigned(d, signed) ==
    u16_from_le_bytes(split_at_2(d)[1])

\* the arms of parse_source that take the extension word: split_at and
\* from_le_bytes; `signed` tells i16::from_le_bytes from u16::from_le_bytes
source_word(d, signed) ==
    LET parts == split_at_2(d)
    IN  IF signed THEN i16_from_le_bytes(parts[1]) ELSE u16_from_le_bytes(parts[1])

\* parse_source checking the tail's length before the register, the way
\* parse_destination does
parse_source_length_first(reg, src, d) ==
    CASE src = 0 ->
           (CASE reg = 3 -> Ok(<<Constant(0), d>>)
              [] reg \in (0 .. 2) \cup (4 .. 15) -> Ok(<<RegisterDirect(reg), d>>)
              [] OTHER -> Err(InvalidSource(src, reg)))
      [] src = 1 ->
           IF reg # 3 /\ Len(d) < 2 THEN Err(MissingSource)
           ELSE (CASE reg = 0 -> Ok(<<Symbolic(source_word(d, TRUE)), split_at_2(d)[2]>>)
                   [] reg = 2 -> Ok(<<Absolute(source_word(d, FALSE)), split_at_2(d)[2]>>)
                   [] reg = 3 -> Ok(<<Constant(1), d>>)
                   [] reg \in {1} \cup (4 .. 15) ->
                        Ok(<<Indexed(reg, source_word(d, TRUE)), split_at_2(d)[2]>>)
                   [] OTHER -> Err(InvalidSource(src, reg)))
      [] src = 2 ->
           (CASE reg = 2 -> Ok(<<Constant(4), d>>)
              [] reg = 3 -> Ok(<<Constant(2), d>>)
              [] reg \in (0 .. 1) \cup (4 .. 15) -> Ok(<<RegisterIndirect(reg), d>>)
              [] OTHER -> Err(InvalidSource(src, reg)))
      [] src = 3 ->
           (CASE reg = 0 ->
                   IF Len(d) < 2 THEN Err(MissingSource)
                   ELSE Ok(<<Immediate(source_word(d, FALSE)), split_at_2(d)[2]>>)
              [] reg = 2 -> Ok(<<Constant(8), d>>)
              [] reg = 3 -> Ok(<<Constant(-1), d>>)
              [] reg \in {1} \cup (4 .. 15) -> Ok(<<RegisterIndirectAutoIncrement(reg), d>>)
              [] OTHER -> Err(InvalidSource(src, reg)))
      [] OTHER -> Err(InvalidSource(src, reg))

\* parse_source(register, source, data)
parse_source(reg, src, d) ==
    CASE src = 0 ->
           (CASE reg = 3 -> Ok(<<Constant(0), d>>)
              [] reg \in (0 .. 2) \cup (4 .. 15) -> Ok(<<RegisterDirect(reg), d>>)
              [] OTHER -> Err(InvalidSource(src, reg)))
      [] src = 1 ->
           (CASE reg = 0 ->
                   IF Len(d) < 2 THEN Err(MissingSource)
                   ELSE Ok(<<Symbolic(source_word(d, TRUE)), split_at_2(d)[2]>>)
              [] reg = 2 ->
                   IF Len(d) < 2 THEN Err(MissingSource)
                   ELSE Ok(<<Absolute(source_word(d, FALSE)), split_at_2(d)[2]>>)
              [] reg = 3 -> Ok(<<Constant(1), d>>)
              [] reg \in {1} \cup (4 .. 15) ->
                   IF Len(d) < 2 THEN Err(MissingSource)
                   ELSE Ok(<<Indexed(reg, source_word(d, TRUE)), split_at_2(d)[2]>>)
              [] OTHER -> Err(InvalidSource(src, reg)))
      [] src = 2 ->
           (CASE reg = 2 -> Ok(<<Constant(4), d>>)
              [] reg = 3 -> Ok(<<Constant(2), d>>)
              [] reg \in (0 .. 1) \cup (4 .. 15) -> Ok(<<RegisterIndirect(reg), d>>)
              [] OTHER -> Err(InvalidSource(src, reg)))
      [] src = 3 ->
           (CASE reg = 0 ->
                   IF Len(d) < 2 THEN Err(MissingSource)
                   ELSE Ok(<<Immediate(source_word(d, FALSE)), split_at_2(d)[2]>>)
              [] reg = 2 -> Ok(<<Constant(8), d>>)
              [] reg = 3 -> Ok(<<Constant(-1), d>>)
              [] reg \in {1} \cup (4 .. 15) -> Ok(<<RegisterIndirectAutoIncrement(reg), d>>)
              [] OTHER -> Err(InvalidSource(src, reg)))
      [] OTHER -> Err(InvalidSource(src, reg))

\* parse_destination treating r3 with AD = 1 as the constant generator, the
\* way the source table does
parse_destination_cg(reg, src, d) ==
    CASE src = 0 -> Ok(RegisterDirect(reg))
      [] src = 1 ->
           IF Len(d) < 2 THEN Err(MissingDestination)
           ELSE LET raw_operand == u16_from_le_bytes(split_at_2(SubSeq(d, 1, 2))[1])
                    index == raw_operand
                IN  CASE reg = 0 -> Ok(Symbolic(as_i16(index)))
                      [] reg = 2 -> Ok(Absolute(raw_operand))
                      [] reg = 3 -> Ok(Constant(1))
                      [] reg \in {1} \cup (4 .. 15) -> Ok(Indexed(reg, as_i16(index)))
                      [] OTHER -> Err(InvalidDestination(src, reg))
      [] OTHER -> Err(InvalidDestination(src, reg))

\* parse_destination reading the word after the first one when the tail is
\* long enough to hold two
parse_destination_skip(reg, src, d) ==
    CASE src = 0 -> Ok(RegisterDirect(reg))
      [] src = 1 ->
           IF Len(d) < 2 THEN Err(MissingDestination)
           ELSE LET at == IF Len(d) >= 4 THEN 3 ELSE 1
                    raw_operand == u16_from_le_bytes(SubSeq(d, at, at + 1))
                    index == raw_operand
                IN  CASE reg = 0 -> Ok(Symbolic(as_i16(index)))
                      [] reg = 2 -> Ok(Absolute(raw_operand))
                      [] reg \in {1} \cup (3 .. 15) -> Ok(Indexed(reg, as_i16(index)))
                      [] OTHER -> Err(InvalidDestination(src, reg))
      [] OTHER -> Err(InvalidDestination(src, reg))

\* parse_destination without the arms for pc and sr: every register with
\* AD = 1 is indexed
parse_destination_plain(reg, src, d) ==
    CASE src = 0 -> Ok(RegisterDirect(reg))
      [] src = 1 ->
           IF Len(d) < 2 THEN Err(MissingDestination)
           ELSE LET raw_operand == u16_from_le_bytes(split_at_2(SubSeq(d, 1, 2))[1])
                    index == raw_operand
                IN  CASE reg \in 0 .. 15 -> Ok(Indexed(reg, as_i16(index)))
                      [] OTHER -> Err(InvalidDestination(src, reg))
      [] OTHER -> Err(InvalidDestination(src, reg))

\* parse_destination keeping the index of Symbolic and Indexed as the
\* unsigned word
parse_destination_unsigned(reg, src, d) ==
    CASE src = 0 -> Ok(RegisterDirect(reg))
      [] src = 1 ->
           IF Len(d) < 2 THEN Err(MissingDestination)
           ELSE LET raw_operand == u16_from_le_bytes(split_at_2(SubSeq(d, 1, 2))[1])
                    index == raw_operand
                IN  CASE reg = 0 -> Ok(Symbolic(index))
                      [] reg = 2 -> Ok(Absolute(raw_operand))
                      [] reg \in {1} \cup (3 .. 15) -> Ok(Indexed(reg, index))
                      [] OTHER -> Err(InvalidDestination(src, reg))
      [] OTHER -> Err(InvalidDestination(src, reg))

\* parse_destination(register, source, data)
parse_destination(reg, src, d) ==
    CASE src = 0 -> Ok(RegisterDirect(reg))
      [] src = 1 ->
           IF Len(d) < 2 THEN Err(MissingDestination)
           ELSE LET raw_operand == u16_from_le_bytes(split_at_2(SubSeq(d, 1, 2))[1])
                    index == raw_operand
                IN  CASE reg = 0 -> Ok(Symbolic(as_i16(index)))
                      [] reg = 2 -> Ok(Absolute(raw_operand))
                      [] reg \in {1} \cup (3 .. 15) -> Ok(Indexed(reg, as_i16(index)))
                      [] OTHER -> Err(InvalidDestination(src, reg))
      [] OTHER -> Err(InvalidDestination(src, reg))

\* the number of bytes of `data` parse_destination reads: data[0..2] when
\* source is 1 and the length check passes, nothing otherwise
parse_destination_read(reg, src, d) ==
    IF src = 1 /\ Len(d) >= 2 THEN 2 ELSE 0

(***************************************************************************)
(* two_operand.rs, emulate.rs, single_operand.rs, jxx.rs: instruction      *)
(* values.  A two-operand instruction is the struct the two_operand! macro *)
(* generates, tagged with its type; an emulated instruction is the struct  *)
(* the emulated! macro generates.                                          *)
(***************************************************************************)
\* $t::new of two_operand!
TwoOperandNew(t, src, width, dst) ==
    [type |-> t, source |-> src, operand_width |-> width, destination |-> dst]

\* $t::new of emulated!
EmulatedNew(t, dst, width, orig) ==
    [type |-> t, destination |-> dst, operand_width |-> width, original |-> orig]

\* $t::new of single_operand! (no width) and single_operand_width!
SingleOperandNew(t, src, width) ==
    [type |-> t, source |-> src, operand_width |-> width]

\* Reti::new
RetiNew == [type |-> "Reti"]

\* Jnz::new .. Jmp::new
JxxNew(t, offset) == [type |-> t, offset |-> offset]

TwoOperandTypes ==
    {"Mov", "Add", "Addc", "Subc", "Sub", "Cmp", "Dadd", "Bit", "Bic", "Bis", "Xor", "And"}

SingleOperandTypes == {"Rrc", "Swpb", "Rra", "Sxt", "Push", "Call"}

JxxTypes == {"Jnz", "Jz", "Jlo", "Jc", "Jn", "Jge", "Jl", "Jmp"}

\* a two-operand size that forgets the destination's extension word
TwoOperandSizeSourceOnly(inst) ==
    2 + OperandSize(inst.source)

\* TwoOperand::size
TwoOperandSize(inst) ==
    2 + OperandSize(inst.source) + OperandSize(inst.destination)

\* an alias size computed from what the alias itself keeps: the instruction
\* word and its own destination
EmulatedSizeOwn(inst) ==
    2 + (IF inst.destination[1] = "Some" THEN OperandSize(inst.destination[2]) ELSE 0)

\* Emulated::size: defers to the original instruction
EmulatedSize(inst) == TwoOperandSize(inst.original)

\* SingleOperand::len
SingleOperandLen(inst) == 2 + OperandSize(inst.source)

\* Reti::len counting an extension word
RetiLenWide(inst) == 4

\* Reti::len
RetiLen(inst) == 2

\* the length of a conditional jump: one instruction word
JxxLen(inst) == 2

\* Instruction::len / size, by variant
InstructionSize(inst) ==
    CASE inst.type \in SingleOperandTypes -> SingleOperandLen(inst)
      [] inst.type = "Reti" -> RetiLen(inst)
      [] inst.type \in JxxTypes -> JxxLen(inst)
      [] inst.type \in TwoOperandTypes -> TwoOperandSize(inst)
      [] OTHER -> EmulatedSize(inst)

\* Mov emulation testing for Clr before Nop
MovEmulateClrFirst(self) ==
    IF (self.source = Constant(0) \/ self.source = Immediate(0))
       /\ self.destination[1] = "RegisterDirect"
    THEN Some(EmulatedNew("Clr", Some(self.destination), None, self))
    ELSE IF self.source = Constant(0) /\ self.destination = RegisterDirect(3)
    THEN Some(EmulatedNew("Nop", None, None, self))
    ELSE IF self.source = RegisterIndirectAutoIncrement(1)
    THEN IF self.destination = RegisterDirect(0)
         THEN Some(EmulatedNew("Ret", None, None, self))
         ELSE Some(EmulatedNew("Pop", Some(self.destination), Some(self.operand_width), self))
    ELSE IF self.destination = RegisterDirect(0)
    THEN Some(EmulatedNew("Br", Some(self.source), None, self))
    ELSE None

\* impl Emulate for Mov
MovEmulate(self) ==
    IF self.source = Constant(0) /\ self.destination = RegisterDirect(3)
    THEN Some(EmulatedNew("Nop", None, None, self))
    ELSE IF (self.source = Constant(0) \/ self.source = Immediate(0))
            /\ self.destination[1] = "RegisterDirect"
    THEN Some(EmulatedNew("Clr", Some(self.destination), None, self))
    ELSE IF self.source = RegisterIndirectAutoIncrement(1)
    THEN IF self.destination = RegisterDirect(0)
         THEN Some(EmulatedNew("Ret", None, None, self))
         ELSE Some(EmulatedNew("Pop", Some(self.destination), Some(self.operand_width), self))
    ELSE IF self.destination = RegisterDirect(0)
    THEN Some(EmulatedNew("Br", Some(self.source), None, self))
    ELSE None

\* Add emulation comparing source and destination by variant and first
\* field only
AddEmulateFirstField(self) ==
    IF self.source = Constant(1)
    THEN Some(EmulatedNew("Inc", Some(self.destination), None, self))
    ELSE IF self.source = Constant(2)
    THEN Some(EmulatedNew("Incd", Some(self.destination), None, self))
    ELSE IF self.source[1] = self.destination[1] /\ self.source[2] = self.destination[2]
    THEN Some(EmulatedNew("Rla", Some(self.destination), Some(self.operand_width), self))
    ELSE None

\* impl Emulate for Add
AddEmulate(self) ==
    IF self.source = Constant(1)
    THEN Some(EmulatedNew("Inc", Some(self.destination), None, self))
    ELSE IF self.source = Constant(2)
    THEN Some(EmulatedNew("Incd", Some(self.destination), None, self))
    ELSE IF self.source = self.destination
    THEN Some(EmulatedNew("Rla", Some(self.destination), Some(self.operand_width), self))
    ELSE None

\* impl Emulate for Addc
AddcEmulate(self) ==
    IF self.source = Constant(0)
    THEN Some(EmulatedNew("Adc", Some(self.destination), Some(self.operand_width), self))
    ELSE IF self.source = self.destination
    THEN Some(EmulatedNew("Rlc", Some(self.destination), Some(self.operand_width), self))
    ELSE None

\* impl Emulate for Subc
SubcEmulate(self) ==
    IF self.source = Constant(0)
    THEN Some(EmulatedNew("Sbc", Some(self.destination), Some(self.operand_width), self))
    ELSE None

\* impl Emulate for Sub
SubEmulate(self) ==
    IF self.source = Constant(1)
    THEN Some(EmulatedNew("Dec", Some(self.destination), Some(self.operand_width), self))
    ELSE IF self.source = Constant(2)
    THEN Some(EmulatedNew("Decd", Some(self.destination), Some(self.operand_width), self))
    ELSE None

\* impl Emulate for Cmp building Tst with a width and no destination
CmpEmulateNoDestination(self) ==
    IF self.source = Constant(0)
    THEN Some(EmulatedNew("Tst", None, Some(self.operand_width), self))
    ELSE None

\* impl Emulate for Cmp
CmpEmulate(self) ==
    IF self.source = Constant(0)
    THEN Some(EmulatedNew("Tst", Some(self.destination), Some(self.operand_width), self))
    ELSE None

\* impl Emulate for Dadd
DaddEmulate(self) ==
    IF self.source = Constant(0)
    THEN Some(EmulatedNew("Dadc", Some(self.destination), Some(self.operand_width), self))
    ELSE None

\* Bic emulation matching the source by its numeric value, constant or
\* immediate
BicEmulateByValue(self) ==
    IF self.destination = RegisterDirect(2) /\ self.source[1] \in {"Constant", "Immediate"}
    THEN CASE self.source[2] = 1 -> Some(EmulatedNew("Clrc", None, None, self))
           [] self.source[2] = 2 -> Some(EmulatedNew("Clrn", None, None, self))
           [] self.source[2] = 4 -> Some(EmulatedNew("Clrz", None, None, self))
           [] self.source[2] = 8 -> Some(EmulatedNew("Dint", None, None, self))
           [] OTHER -> None
    ELSE None

\* impl Emulate for Bic
BicEmulate(self) ==
    IF self.destination = RegisterDirect(2)
    THEN CASE self.source = Constant(1) -> Some(EmulatedNew("Clrc", None, None, self))
           [] self.source = Constant(2) -> Some(EmulatedNew("Clrn", None, None, self))
           [] self.source = Constant(4) -> Some(EmulatedNew("Clrz", None, None, self))
           [] self.source = Constant(8) -> Some(EmulatedNew("Dint", None, None, self))
           [] OTHER -> None
    ELSE None

\* impl Emulate for Bis
BisEmulate(self) ==
    IF self.destination = RegisterDirect(2)
    THEN CASE self.source = Constant(1) -> Some(EmulatedNew("Setc", None, None, self))
           [] self.source = Constant(2) -> Some(EmulatedNew("Setz", None, None, self))
           [] self.source = Constant(4) -> Some(EmulatedNew("Setn", None, None, self))
           [] self.source = Constant(8) -> Some(EmulatedNew("Eint", None, None, self))
           [] OTHER -> None
    ELSE None

\* Xor emulation matching every source whose sixteen bits are all ones,
\* the constant -1 or the immediate 0xffff
XorEmulateAllOnes(self) ==
    IF self.source \in {Constant(-1), Immediate(65535)}
    THEN Some(EmulatedNew("Inv", Some(self.destination), Some(self.operand_width), self))
    ELSE None

\* impl Emulate for Xor
XorEmulate(self) ==
    IF self.source = Constant(-1)
    THEN Some(EmulatedNew("Inv", Some(self.destination), Some(self.operand_width), self))
    ELSE None

\* Emulate::emulate by type; Bit and And implement no emulation
emulate(self) ==
    CASE self.type = "Mov" -> MovEmulate(self)
      [] self.type = "Add" -> AddEmulate(self)
      [] self.type = "Addc" -> AddcEmulate(self)
      [] self.type = "Subc" -> SubcEmulate(self)
      [] self.type = "Sub" -> SubEmulate(self)
      [] self.type = "Cmp" -> CmpEmulate(self)
      [] self.type = "Dadd" -> DaddEmulate(self)
      [] self.type = "Bic" -> BicEmulate(self)
      [] self.type = "Bis" -> BisEmulate(self)
      [] self.type = "Xor" -> XorEmulate(self)
      [] OTHER -> None

(***************************************************************************)
(* Bit fields of the first word.                                           *)
(***************************************************************************)
RECURSIVE Pow2(_)
Pow2(n) == IF n = 0 THEN 1 ELSE 2 * Pow2(n - 1)

\* (w >> shift) & (2^bits - 1)
Bits(w, shift, bits) == (w \div Pow2(shift)) % Pow2(bits)

\* !v on a u16
not_u16(v) == 65535 - v

\* jxx_fix_offset
jxx_fix_offset(offset) ==
    IF Bits(offset, 9, 1) > 0
    THEN -1 * as_i16(not_u16(offset) % 1024)
    ELSE as_i16(offset)

(***************************************************************************)
(* lib.rs: the addr-taking decode(data, addr) -> Option<Instruction>.      *)
(***************************************************************************)
RRC_OPCODE == 0
SWPB_OPCODE == 1
RRA_OPCODE == 2
SXT_OPCODE == 3
PUSH_OPCODE == 4
CALL_OPCODE == 5
RETI_OPCODE == 6
SINGLE_OPERAND_REGISTER_MASK == 15
SINGLE_OPERAND_OPCODE_MASK == 896
SINGLE_OPERAND_SOURCE_MASK == 48
SINGLE_OPERAND_WIDTH_MASK == 64
INST_TYPE_MASK == 57344
SINGLE_OPERAND_INSTRUCTION == 0
JMP_INSTRUCTION == 8192
JMP_CONDITION_MASK == 7168
JMP_OFFSET == 1023

\* a & b on u16
RECURSIVE BitAnd(_, _)
BitAnd(a, b) ==
    IF a = 0 \/ b = 0 THEN 0
    ELSE (a % 2) * (b % 2) + 2 * BitAnd(a \div 2, b \div 2)

\* v >> n
Shr(v, n) == v \div Pow2(n)

\* AddressingMode::IndirectAutoIncrement of lib.rs
IndirectAutoIncrement(r) == <<"IndirectAutoIncrement", r>>

\* ones_complement reading the word as two's complement
ones_complement_twos(val) == as_i16(val)

\* ones_complement
ones_complement(val) ==
    IF BitAnd(32768, val) > 0
    THEN -1 * as_i16(not_u16(val))
    ELSE as_i16(val)

\* enum JmpCondition, by the condition field
JmpCondition(condition) ==
    CASE condition = 0 -> "Jnz"
      [] condition = 1 -> "Jz"
      [] condition = 2 -> "Jlo"
      [] condition = 3 -> "Jc"
      [] condition = 4 -> "Jn"
      [] condition = 5 -> "Jge"
      [] condition = 6 -> "Jl"
      [] condition = 7 -> "Jmp"

\* JmpInstruction::new reading the offset field as two's complement
JmpInstructionNewTwos(condition, offset) ==
    [type |-> "JmpInstruction", condition |-> condition,
     offset |-> IF BitAnd(offset, 512) > 0 THEN offset - 1024 ELSE offset]

\* JmpInstruction::new
JmpInstructionNew(condition, offset) ==
    LET fixed_offset == IF BitAnd(offset, 512) > 0
                        THEN -1 * as_i16(BitAnd(1023, not_u16(offset)))
                        ELSE as_i16(offset)
    IN  [type |-> "JmpInstruction", condition |-> condition, offset |-> fixed_offset]

\* data[addr + 2..addr + 4] read as a little-endian word; the slice panics
\* when data is shorter than addr + 4
second_word(d, a) ==
    IF Len(d) < a + 4 THEN Panic("range end index out of range for slice")
    ELSE Ok(u16_from_le_bytes(split_at_2(SubSeq(d, a + 3, a + 4))[1]))

\* the `let addressing_mode = match register` of decode: Some(mode), None,
\* or a panic
addressing_mode(d, a, reg, src) ==
    LET word == second_word(d, a)
        with_word(mode(_)) == IF word[1] = "Panic" THEN word ELSE Some(mode(word[2]))
        symbolic(v) == Symbolic(ones_complement(v))
        immediate(v) == Immediate(ones_complement(v))
        absolute(v) == Absolute(v)
        indexed(v) == Indexed(reg, ones_complement(v))
    IN  CASE reg = 0 ->
               (CASE src = 0 -> None
                  [] src = 1 -> with_word(symbolic)
                  [] src = 3 -> with_word(immediate)
                  [] OTHER -> Panic("invalid addressing mode"))
          [] reg = 2 ->
               (CASE src = 1 -> with_word(absolute)
                  [] src = 2 -> Some(Constant(4))
                  [] src = 3 -> Some(Constant(8))
                  [] OTHER -> Panic("unreachable"))
          [] reg = 3 ->
               (CASE src = 0 -> Some(Constant(0))
                  [] src = 1 -> Some(Constant(1))
                  [] src = 2 -> Some(Constant(2))
                  [] src = 3 -> Some(Constant(-1))
                  [] OTHER -> Panic("unreachable"))
          [] OTHER ->
               (CASE src = 0 -> Some(RegisterDirect(reg))
                  [] src = 1 -> with_word(indexed)
                  [] src = 2 -> Some(RegisterIndirect(reg))
                  [] src = 3 -> Some(IndirectAutoIncrement(reg))
                  [] OTHER -> Panic("invalid addressing mode"))

\* decode(data, addr) of lib.rs
decode(d, a) ==
    IF Len(d) < a + 2 THEN None
    ELSE
      LET first_word == u16_from_le_bytes(split_at_2(SubSeq(d, a + 1, a + 2))[1])
          inst_type == BitAnd(first_word, INST_TYPE_MASK)
      IN
      CASE inst_type = SINGLE_OPERAND_INSTRUCTION ->
             LET opcode == Shr(BitAnd(SINGLE_OPERAND_OPCODE_MASK, first_word), 7)
                 reg == BitAnd(SINGLE_OPERAND_REGISTER_MASK, first_word)
                 src == Shr(BitAnd(SINGLE_OPERAND_SOURCE_MASK, first_word), 4)
                 operand_width == Shr(BitAnd(SINGLE_OPERAND_WIDTH_MASK, first_word), 6)
                 mode == addressing_mode(d, a, reg, src)
             IN  IF mode[1] = "Panic" THEN mode
                 ELSE IF opcode \in {RRC_OPCODE, SWPB_OPCODE, RRA_OPCODE, SXT_OPCODE,
                                     PUSH_OPCODE, CALL_OPCODE, RETI_OPCODE}
                 THEN Some([type |-> "SingleOperand", opcode |-> opcode,
                            addressing_mode |-> mode, operand_width |-> operand_width])
                 ELSE None
        [] inst_type = JMP_INSTRUCTION ->
             LET condition == Shr(BitAnd(first_word, JMP_CONDITION_MASK), 10)
                 offset == BitAnd(first_word, JMP_OFFSET)
             IN  Some(JmpInstructionNew(JmpCondition(condition), offset))
        [] OTHER -> None

(***************************************************************************)
(* impl fmt::Display: operand.rs, single_operand.rs, two_operand.rs,       *)
(* emulate.rs.  A rendering is Ok(text) or the panic the formatting ends   *)
(* in; overflow_checks tells a build that panics on integer overflow from  *)
(* one that wraps.                                                         *)
(***************************************************************************)
\* {:x} of a non-negative integer
RECURSIVE lower_hex(_)
lower_hex(n) ==
    LET digit == <<"0", "1", "2", "3", "4", "5", "6", "7",
                   "8", "9", "a", "b", "c", "d", "e", "f">>
    IN  IF n < 16 THEN digit[n + 1] ELSE lower_hex(n \div 16) \o digit[(n % 16) + 1]

\* {} of a u8
RECURSIVE decimal(_)
decimal(n) ==
    LET digit == <<"0", "1", "2", "3", "4", "5", "6", "7", "8", "9">>
    IN  IF n < 10 THEN digit[n + 1] ELSE decimal(n \div 10) \o digit[(n % 10) + 1]

\* {:#x} of an integer of the given width: a negative value prints the
\* bits of its two's complement
fmt_hex(v, width) == "0x" \o lower_hex(IF v < 0 THEN v + Pow2(width) ELSE v)

\* -i on a signed integer of the given width overflows on the least value
neg_overflows(i, width) == i = -1 * Pow2(width - 1)

\* -i where overflow wraps
wrapping_neg(i, width) == IF neg_overflows(i, width) THEN i ELSE -1 * i

\* write!(f, "{prefix}{:#x}{suffix}", i) when i >= 0 and
\* write!(f, "{prefix}-{:#x}{suffix}", -i) otherwise; the negation of the
\* least value panics or wraps
fmt_signed(prefix, i, width, suffix, overflow_checks) ==
    IF i >= 0 THEN Ok(prefix \o fmt_hex(i, width) \o suffix)
    ELSE IF neg_overflows(i, width) /\ overflow_checks
    THEN Panic("attempt to negate with overflow")
    ELSE Ok(prefix \o "-" \o fmt_hex(wrapping_neg(i, width), width) \o suffix)

\* impl fmt::Display for Operand
OperandDisplay(self, overflow_checks) ==
    CASE self[1] = "RegisterDirect" ->
           (CASE self[2] = 0 -> Ok("pc")
              [] self[2] = 1 -> Ok("sp")
              [] self[2] = 2 -> Ok("sr")
              [] self[2] = 3 -> Ok("cg")
              [] OTHER -> Ok("r" \o decimal(self[2])))
      [] self[1] = "Indexed" ->
           (CASE self[2] = 1 -> fmt_signed("", self[3], 16, "(sp)", overflow_checks)
              [] self[2] = 3 -> fmt_signed("", self[3], 16, "(cg)", overflow_checks)
              [] self[2] \in 4 .. 15 ->
                   fmt_signed("", self[3], 16, "(r" \o decimal(self[2]) \o ")", overflow_checks)
              [] OTHER -> Panic("unreachable"))
      [] self[1] = "RegisterIndirect" ->
           IF self[2] = 1 THEN Ok("@sp") ELSE Ok("@r" \o decimal(self[2]))
      [] self[1] = "RegisterIndirectAutoIncrement" ->
           IF self[2] = 1 THEN Ok("@sp+") ELSE Ok("@r" \o decimal(self[2]) \o "+")
      [] self[1] = "Symbolic" -> fmt_signed("#", self[2], 16, "(pc)", overflow_checks)
      [] self[1] = "Immediate" ->
           IF BitAnd(self[2], 32768) = 0
           THEN Ok("#" \o fmt_hex(self[2], 16))
           ELSE Ok("#-" \o fmt_hex(as_i16(self[2]), 16))
      [] self[1] = "Absolute" -> Ok("&" \o fmt_hex(self[2], 16))
      [] self[1] = "Constant" -> fmt_signed("#", self[2], 8, "", overflow_checks)

\* the name literal each type is declared with: single_operand!,
\* single_operand_width!, two_operand!, emulated!
MnemonicLiteral ==
    [Rrc |-> "rrc", Swpb |-> "swpb", Rra |-> "rra", Sxt |-> "sxt", Push |-> "push",
     Call |-> "call",
     Mov |-> "mov", Add |-> "add", Addc |-> "addc", Subc |-> "subc", Sub |-> "sub",
     Cmp |-> "cmp", Dadd |-> "dadd", Bit |-> "bit", Bic |-> "bic", Bis |-> "bis",
     Xor |-> "xor", And |-> "and",
     Adc |-> "adc", Br |-> "br", Clr |-> "clr", Clrc |-> "clrc", Clrn |-> "clrn",
     Clrz |-> "clrz", Dadc |-> "dadc", Dec |-> "dec", Decd |-> "decd", Dint |-> "dint",
     Eint |-> "eint", Inc |-> "inc", Incd |-> "incd", Inv |-> "inv", Nop |-> "nop",
     Pop |-> "pop", Ret |-> "ret", Rla |-> "rla", Rlc |-> "rlc", Sbc |-> "sbc",
     Setc |-> "setc", Setn |-> "Setn", Setz |-> "setz", Tst |-> "tst"]

\* instruction.rs
BYTE_SUFFIX == ".b"
WORD_SUFFIX == ""

\* text followed by a rendering, itself followed by text
Written(prefix, rendering, suffix) ==
    IF rendering[1] = "Panic" THEN rendering ELSE Ok(prefix \o rendering[2] \o suffix)

\* TwoOperand::mnemonic
TwoOperandMnemonic(inst) ==
    IF inst.operand_width = Word THEN MnemonicLiteral[inst.type]
    ELSE MnemonicLiteral[inst.type] \o ".b"

\* Display of two_operand!: "{} {}, {}"
TwoOperandDisplay(inst, overflow_checks) ==
    LET src == OperandDisplay(inst.source, overflow_checks)
        dst == OperandDisplay(inst.destination, overflow_checks)
    IN  IF src[1] = "Panic" THEN src
        ELSE Written(TwoOperandMnemonic(inst) \o " " \o src[2] \o ", ", dst, "")

\* Display of single_operand! ("{} {}") and of single_operand_width!
\* ("{}{} {}")
SingleOperandDisplay(inst, overflow_checks) ==
    LET suffix == IF inst.operand_width = Some(Byte) THEN BYTE_SUFFIX ELSE WORD_SUFFIX
    IN  Written(MnemonicLiteral[inst.type] \o suffix \o " ",
                OperandDisplay(inst.source, overflow_checks), "")

\* Display of Reti
RetiDisplay(inst) == Ok("reti")

\* Emulated::mnemonic
EmulatedMnemonic(inst) ==
    IF inst.operand_width = Some(Byte) THEN MnemonicLiteral[inst.type] \o ".b"
    ELSE MnemonicLiteral[inst.type]

\* Display of emulated!
EmulatedDisplay(inst, overflow_checks) ==
    IF inst.destination = None /\ inst.operand_width = None
    THEN Ok(MnemonicLiteral[inst.type])
    ELSE IF inst.destination = None
    THEN Panic("called Option::unwrap() on a None value")
    ELSE Written(EmulatedMnemonic(inst) \o " ",
                 OperandDisplay(inst.destination[2], overflow_checks), "")

\* Display, by variant
InstructionDisplay(inst, overflow_checks) ==
    CASE inst.type \in SingleOperandTypes -> SingleOperandDisplay(inst, overflow_checks)
      [] inst.type = "Reti" -> RetiDisplay(inst)
      [] inst.type \in TwoOperandTypes -> TwoOperandDisplay(inst, overflow_checks)
      [] OTHER -> EmulatedDisplay(inst, overflow_checks)

(***************************************************************************)
(* The decoder of the specification (section 4.2): decode(bytes) ->        *)
(* Result<Instruction, DecodeError>, composed of parse_source,             *)
(* parse_destination, the instruction constructors and emulate.  Its body  *)
(* is not among the source files; it is written from the specification.    *)
(***************************************************************************)
\* the single-operand form
decode_single_operand(w, tail) ==
    LET opcode == Bits(w, 7, 3)
        width == OperandWidthFrom(Bits(w, 6, 1))
        as_bits == Bits(w, 4, 2)
        reg == Bits(w, 0, 4)
        parsed == parse_source(reg, as_bits, tail)
        src == parsed[2][1]
    IN  IF opcode = 6 THEN Ok(RetiNew)
        ELSE IF IsErr(parsed) THEN parsed
        ELSE CASE opcode = 0 -> Ok(SingleOperandNew("Rrc", src, Some(width)))
               [] opcode = 1 -> Ok(SingleOperandNew("Swpb", src, None))
               [] opcode = 2 -> Ok(SingleOperandNew("Rra", src, Some(width)))
               [] opcode = 3 -> Ok(SingleOperandNew("Sxt", src, None))
               [] opcode = 4 -> Ok(SingleOperandNew("Push", src, Some(width)))
               [] opcode = 5 -> Ok(SingleOperandNew("Call", src, None))
               [] OTHER -> Err(InvalidOpcode(opcode))

\* the conditional jump form
decode_jxx(w) ==
    LET cond == Bits(w, 10, 3)
        offset == jxx_fix_offset(Bits(w, 0, 10))
    IN  CASE cond = 0 -> Ok(JxxNew("Jnz", offset))
          [] cond = 1 -> Ok(JxxNew("Jz", offset))
          [] cond = 2 -> Ok(JxxNew("Jlo", offset))
          [] cond = 3 -> Ok(JxxNew("Jc", offset))
          [] cond = 4 -> Ok(JxxNew("Jn", offset))
          [] cond = 5 -> Ok(JxxNew("Jge", offset))
          [] cond = 6 -> Ok(JxxNew("Jl", offset))
          [] cond = 7 -> Ok(JxxNew("Jmp", offset))
          [] OTHER -> Err(InvalidJumpCondition(cond))

\* the two-operand mnemonic of an opcode
TwoOperandType(opcode) ==
    CASE opcode = 4 -> "Mov"
      [] opcode = 5 -> "Add"
      [] opcode = 6 -> "Addc"
      [] opcode = 7 -> "Subc"
      [] opcode = 8 -> "Sub"
      [] opcode = 9 -> "Cmp"
      [] opcode = 10 -> "Dadd"
      [] opcode = 11 -> "Bit"
      [] opcode = 12 -> "Bic"
      [] opcode = 13 -> "Bis"
      [] opcode = 14 -> "Xor"
      [] opcode = 15 -> "And"

\* the two-operand form
decode_two_operand(w, tail) ==
    LET opcode == Bits(w, 12, 4)
        src_reg == Bits(w, 8, 4)
        ad_bit == Bits(w, 7, 1)
        width == OperandWidthFrom(Bits(w, 6, 1))
        as_bits == Bits(w, 4, 2)
        dst_reg == Bits(w, 0, 4)
        parsed == parse_source(src_reg, as_bits, tail)
        src == parsed[2][1]
        tail2 == parsed[2][2]
        dst == parse_destination(dst_reg, ad_bit, tail2)
    IN  IF IsErr(parsed) THEN parsed
        ELSE IF IsErr(dst) THEN dst
        ELSE IF opcode \notin 4 .. 15 THEN Err(InvalidOpcode(opcode))
        ELSE LET inst == TwoOperandNew(TwoOperandType(opcode), src, width, dst[2])
                 alias == emulate(inst)
             IN  IF alias = None THEN Ok(inst) ELSE Ok(alias[2])

\* decode(bytes)
decode_instruction(bytes) ==
    IF Len(bytes) < 2 THEN Err(MissingInstruction)
    ELSE LET w == u16_from_le_bytes(bytes)
             tail == SubSeq(bytes, 3, Len(bytes))
         IN  CASE Bits(w, 13, 3) = 0 -> decode_single_operand(w, tail)
               [] Bits(w, 13, 3) = 1 -> decode_jxx(w)
               [] OTHER -> decode_two_operand(w, tail)

\* the number of bytes of `bytes` a successful decode takes: the
\* instruction word, the bytes parse_source removes from the tail and the
\* bytes parse_destination reads
decode_consumed(bytes) ==
    LET w == u16_from_le_bytes(bytes)
        tail == SubSeq(bytes, 3, Len(bytes))
    IN  CASE Bits(w, 13, 3) = 0 ->
               IF Bits(w, 7, 3) = 6 THEN 2
               ELSE 2 + (Len(tail) - Len(parse_source(Bits(w, 0, 4), Bits(w, 4, 2), tail)[2][2]))
          [] Bits(w, 13, 3) = 1 -> 2
          [] OTHER ->
               LET tail2 == parse_source(Bits(w, 8, 4), Bits(w, 4, 2), tail)[2][2]
               IN  2 + (Len(tail) - Len(tail2))
                     + parse_destination_read(Bits(w, 0, 4), Bits(w, 7, 1), tail2)

(***************************************************************************)
(* The operand parsers applied to one (register, source, data) triple.     *)
(***************************************************************************)
NoResult == <<"NoResult">>

InitParse ==
    /\ pc = "start"
    /\ register \in RegisterInputs
    /\ source \in SourceInputs
    /\ data \in Tails
    /\ addr = 0
    /\ result = NoResult
    /\ prev = NoResult

ParseSource ==
    /\ pc = "start"
    /\ pc' = "parse_source"
    /\ result' = parse_source(register, source, data)
    /\ UNCHANGED <<data, addr, register, source, prev>>

ParseDestination ==
    /\ pc = "start"
    /\ pc' = "parse_destination"
    /\ result' = parse_destination(register, source, data)
    /\ UNCHANGED <<data, addr, register, source, prev>>

NextParse == ParseSource \/ ParseDestination

SpecParse == InitParse /\ [][NextParse]_vars

(***************************************************************************)
(* Instruction words and buffers the decoders are applied to.              *)
(***************************************************************************)
\* longest run of bytes that follows the instruction word in a buffer
MaxExt == 4

\* largest decode position handed to decode(data, addr)
MaxAddr == 1

\* values of the register field in bits 8..11 (for a jump: the low bits of
\* the condition and the high bits of the offset)
HighFields == {0, 1, 2, 3, 4, 8, 15}

\* values of the register field in bits 0..3
LowFields == {0, 1, 2, 3, 4, 15}

\* first words: every opcode nibble, the sampled register fields, and every
\* value of the AD, width and AS bits
FirstWords ==
    {o * 4096 + h * 256 + m * 16 + l : o \in 0 .. 15, h \in HighFields, m \in 0 .. 15, l \in LowFields}

\* the bytes that follow the instruction word: the byte at position i of an
\* extension pattern (0xfffb, 0x4400 repeated; or zeroes)
ExtByte(p, i) == IF p = 1 THEN <<251, 255, 0, 68>>[((i - 1) % 4) + 1] ELSE 0

ExtTails == {[i \in 1 .. n |-> ExtByte(p, i)] : p \in {1, 2}, n \in 0 .. MaxExt}

\* the two bytes of a word, least significant first
WordBytes(w) == <<w % 256, w \div 256>>

\* buffers: nothing, half an instruction word, or an instruction word and
\* a tail
Buffers ==
    {<<>>} \cup {<<w % 256>> : w \in {0, 4623}}
           \cup {WordBytes(w) \o t : w \in FirstWords, t \in ExtTails}

(***************************************************************************)
(* decode(bytes) applied to one buffer.                                    *)
(***************************************************************************)
InitDecode ==
    /\ pc = "start"
    /\ data \in Buffers
    /\ addr = 0
    /\ register = 0
    /\ source = 0
    /\ result = NoResult
    /\ prev = NoResult

Decode ==
    /\ pc = "start"
    /\ pc' = "decoded"
    /\ result' = decode_instruction(data)
    /\ UNCHANGED <<data, addr, register, source, prev>>

NextDecode == Decode

SpecDecode == InitDecode /\ [][NextDecode]_vars

(***************************************************************************)
(* decode(bytes) applied to one buffer, then to a buffer that agrees with  *)
(* it on the bytes of the decoded instruction.                             *)
(***************************************************************************)
\* first words of the buffers that are decoded twice
SuffixWords ==
    {w \in FirstWords : (w \div 256) % 16 \in {0, 1, 2, 4} /\ w % 16 \in {0, 2, 4}}

InitSuffix ==
    /\ pc = "start"
    /\ data \in {WordBytes(w) \o t : w \in SuffixWords, t \in ExtTails}
    /\ addr = 0
    /\ register = 0
    /\ source = 0
    /\ result = NoResult
    /\ prev = NoResult

\* replace everything after the decoded instruction (its first size()
\* bytes) by another tail and decode again
DecodeOtherSuffix ==
    /\ pc = "decoded"
    /\ IsOk(result)
    /\ \E t \in ExtTails :
          /\ data' = SubSeq(data, 1, InstructionSize(result[2])) \o t
          /\ result' = decode_instruction(data')
    /\ prev' = [data |-> data, result |-> result]
    /\ pc' = "redecoded"
    /\ UNCHANGED <<addr, register, source>>

NextSuffix == Decode \/ DecodeOtherSuffix

SpecSuffix == InitSuffix /\ [][NextSuffix]_vars

(***************************************************************************)
(* decode(data, addr) of lib.rs applied at one position of one buffer.     *)
(***************************************************************************)
\* first words handed to decode(data, addr): every sampled single-operand
\* and jump word, and the two-operand words whose source register is r15
LibWords == {w \in FirstWords : w < 16384 \/ (w \div 256) % 16 = 15}

\* the bytes before the decode position
Fill(n) == [i \in 1 .. n |-> 255]

InitLib ==
    /\ pc = "start"
    /\ addr \in 0 .. MaxAddr
    /\ data \in {Fill(k) : k \in 0 .. addr}
                \cup {Fill(addr) \o <<w % 256>> : w \in {0, 4623}}
                \cup {Fill(addr) \o WordBytes(w) \o t : w \in LibWords, t \in ExtTails}
    /\ register = 0
    /\ source = 0
    /\ result = NoResult
    /\ prev = NoResult

DecodeAt ==
    /\ pc = "start"
    /\ pc' = "decoded_at"
    /\ result' = decode(data, addr)
    /\ UNCHANGED <<data, addr, register, source, prev>>

NextLib == DecodeAt

SpecLib == InitLib /\ [][NextLib]_vars

(***************************************************************************)
(* Claims about the operand parsers, checked under SpecParse.              *)
(***************************************************************************)
\* the little-endian word of the first two bytes of a tail, unsigned and
\* read as two's complement
TailWord(d) == d[1] + 256 * d[2]
TailWordSigned(d) == IF TailWord(d) >= 32768 THEN TailWord(d) - 65536 ELSE TailWord(d)

\* the source table of the specification, keyed by (as_bits, register)
SourceTable(as, reg, d) ==
    CASE as = 0 /\ reg = 3 -> Constant(0)
      [] as = 0 /\ reg # 3 -> RegisterDirect(reg)
      [] as = 1 /\ reg = 0 -> Symbolic(TailWordSigned(d))
      [] as = 1 /\ reg = 2 -> Absolute(TailWord(d))
      [] as = 1 /\ reg = 3 -> Constant(1)
      [] as = 1 /\ reg \notin {0, 2, 3} -> Indexed(reg, TailWordSigned(d))
      [] as = 2 /\ reg = 2 -> Constant(4)
      [] as = 2 /\ reg = 3 -> Constant(2)
      [] as = 2 /\ reg \notin {2, 3} -> RegisterIndirect(reg)
      [] as = 3 /\ reg = 0 -> Immediate(TailWord(d))
      [] as = 3 /\ reg = 2 -> Constant(8)
      [] as = 3 /\ reg = 3 -> Constant(-1)
      [] as = 3 /\ reg \notin {0, 2, 3} -> RegisterIndirectAutoIncrement(reg)

\* the rows of the source table that take an extension word
SourceNeedsWord(as, reg) ==
    \/ as = 1 /\ reg \in {0, 1, 2} \cup (4 .. 15)
    \/ as = 3 /\ reg = 0

\* C5: for every register 0..15, every AS 0..3 and every tail of at least
\* two bytes, parse_source returns the operand of the source table, the
\* extension word read little-endian, signed for Symbolic and Indexed and
\* unsigned for Immediate and Absolute.
C5_SourceTable ==
    (pc = "parse_source" /\ register \in 0 .. 15 /\ source \in 0 .. 3 /\ Len(data) >= 2)
        => /\ IsOk(result)
           /\ result[2][1] = SourceTable(source, register, data)

C5_Witness ==
    /\ pc = "parse_source"
    /\ register = 9 /\ source = 1 /\ data = <<251, 255>>
    /\ result = Ok(<<Indexed(9, -5), <<>> >>)

\* C6: parse_source returns MissingSource exactly when the row needs an
\* extension word and the tail has fewer than two bytes, InvalidSource
\* carrying (as_bits, reg) exactly when as_bits > 3 or reg > 15 whatever the
\* tail holds, and succeeds in every other case.
C6_SourceErrors ==
    pc = "parse_source" =>
        /\ (result = Err(MissingSource))
              <=> (source \in 0 .. 3 /\ register \in 0 .. 15
                   /\ SourceNeedsWord(source, register) /\ Len(data) < 2)
        /\ (result = Err(InvalidSource(source, register)))
              <=> (source > 3 \/ register > 15)
        /\ IsOk(result)
              <=> ~(source > 3 \/ register > 15)
                  /\ ~(SourceNeedsWord(source, register) /\ Len(data) < 2)

C6_Witness ==
    /\ pc = "parse_source"
    /\ register = 0 /\ source = 3 /\ Len(data) = 1
    /\ result = Err(MissingSource)

C8_DestinationTable ==
    (pc = "parse_destination" /\ register \in 0 .. 15) =>
        /\ source = 0 =>
              /\ result = Ok(RegisterDirect(register))
              /\ parse_destination_read(register, source, data) = 0
        /\ (source = 1 /\ Len(data) >= 2) =>
              result = Ok(CASE register = 0 -> Symbolic(TailWordSigned(data))
                            [] register = 2 -> Absolute(TailWord(data))
                            [] OTHER -> Indexed(register, TailWordSigned(data)))

C8_Witness ==
    /\ pc = "parse_destination"
    /\ register = 3 /\ source = 1 /\ data = <<254, 255>>
    /\ result = Ok(Indexed(3, -2))

\* C9: parse_destination returns MissingDestination when AD = 1, the
\* register is in the table and the tail has fewer than two bytes, and
\* InvalidDestination((ad, reg)) whenever ad is not 0 or 1 or reg > 15,
\* whatever the tail holds.
C9_DestinationErrors ==
    pc = "parse_destination" =>
        /\ (source = 1 /\ register \in 0 .. 15 /\ Len(data) < 2)
              => result = Err(MissingDestination)
        /\ (source \notin {0, 1} \/ register > 15)
              => result = Err(InvalidDestination(source, register))

C3_NoPanic ==
    pc = "decoded_at" => result[1] # "Panic"

\* C4: with fewer than two bytes at the decode position decode fails with
\* MissingInstruction and yields no instruction.  (SpecLib)
C4_MissingInstruction ==
    (pc = "decoded_at" /\ Len(data) < addr + 2) => result = Err(MissingInstruction)

\* the instruction the two-operand form of the specification yields for
\* first word w and tail t: the variant of opcode w >> 12 over the source
\* parsed from t and the destination parsed from what the source left, or
\* its alias
TwoOperandExpected(w, t) ==
    LET parsed == parse_source(Bits(w, 8, 4), Bits(w, 4, 2), t)
        dst == parse_destination(Bits(w, 0, 4), Bits(w, 7, 1), parsed[2][2])
        inst == TwoOperandNew(TwoOperandType(Bits(w, 12, 4)), parsed[2][1],
                              IF Bits(w, 6, 1) = 0 THEN Word ELSE Byte, dst[2])
    IN  IF IsErr(parsed) THEN parsed
        ELSE IF IsErr(dst) THEN dst
        ELSE IF emulate(inst) = None THEN Ok(inst) ELSE Ok(emulate(inst)[2])

\* C10: for every first word whose top three bits are neither 000 nor 001,
\* decode parses the source, then the destination from the bytes the
\* source left, and returns the variant chosen by opcode 4..15 (or its
\* alias).  (SpecLib)
C10_TwoOperandForm ==
    (pc = "decoded_at" /\ Len(data) >= addr + 2) =>
        LET w == data[addr + 1] + 256 * data[addr + 2]
            expected == TwoOperandExpected(w, SubSeq(data, addr + 3, Len(data)))
        IN  (w \div 8192 \notin {0, 1} /\ IsOk(expected)) =>
                /\ result[1] \in {"Some", "Ok"}
                /\ result[2] = expected[2]

\* the fields of the first word at the decode position
WordAt(d, a) == d[a + 1] + 256 * d[a + 2]
TailAt(d, a) == SubSeq(d, a + 3, Len(d))

\* the mnemonic of a decoded single-operand instruction, whether it is one
\* struct per mnemonic or a struct with an opcode field
MnemonicOf(inst) ==
    IF inst.type = "SingleOperand"
    THEN <<"Rrc", "Swpb", "Rra", "Sxt", "Push", "Call", "Reti">>[inst.opcode + 1]
    ELSE inst.type

\* the source operand a decoded single-operand instruction carries, as
\* Some(operand) or None; AddressingMode::IndirectAutoIncrement reads as
\* Operand::RegisterIndirectAutoIncrement
SourceOf(inst) ==
    IF inst.type = "SingleOperand"
    THEN IF inst.addressing_mode[1] = "None" THEN None
         ELSE IF inst.addressing_mode[2][1] = "IndirectAutoIncrement"
         THEN Some(RegisterIndirectAutoIncrement(inst.addressing_mode[2][2]))
         ELSE inst.addressing_mode
    ELSE IF "source" \in DOMAIN inst THEN Some(inst.source) ELSE None

\* C11: for every first word with top three bits 000, opcodes 0..5 yield
\* Rrc, Swpb, Rra, Sxt, Push, Call, each carrying the source operand of the
\* source table for reg = w & 15 and as_bits = (w >> 4) & 3, and opcode 7
\* is rejected with InvalidOpcode(7).  (SpecLib)
C11_SingleOperandForm ==
    (pc = "decoded_at" /\ Len(data) >= addr + 2) =>
        LET w == WordAt(data, addr)
            tail == TailAt(data, addr)
            opcode == Bits(w, 7, 3)
            reg == Bits(w, 0, 4)
            as_bits == Bits(w, 4, 2)
        IN  w \div 8192 = 0 =>
              /\ (opcode \in 0 .. 5 /\ (SourceNeedsWord(as_bits, reg) => Len(tail) >= 2)) =>
                    /\ result[1] \in {"Some", "Ok"}
                    /\ MnemonicOf(result[2])
                          = <<"Rrc", "Swpb", "Rra", "Sxt", "Push", "Call">>[opcode + 1]
                    /\ SourceOf(result[2]) = Some(SourceTable(as_bits, reg, tail))
              /\ opcode = 7 =>
                    /\ result[1] = "Err"
                    /\ result[2] = InvalidOpcode(7)

\* C12: for every first word with top three bits 000 and opcode field 6,
\* whatever bits 0..6 hold, decode returns Reti with no operand and no
\* width, takes no extension bytes, and succeeds on a buffer that ends
\* after the instruction word: the value the test `reti` pins for
\* [0x00, 0x13].  (SpecLib)
C12_Reti ==
    (pc = "decoded_at" /\ Len(data) >= addr + 2) =>
        LET w == WordAt(data, addr)
        IN  (w \div 8192 = 0 /\ Bits(w, 7, 3) = 6) =>
              /\ result[1] \in {"Some", "Ok"}
              /\ MnemonicOf(result[2]) = "Reti"
              /\ SourceOf(result[2]) = None
              /\ ("operand_width" \in DOMAIN result[2]) => result[2].operand_width = 0

(***************************************************************************)
(* Conditional jumps: decode(data, addr) of lib.rs and jxx_fix_offset of   *)
(* jxx.rs applied to every jump word.                                      *)
(***************************************************************************)
\* every first word whose top three bits are 001
JumpWords == 8192 .. 16383

\* what follows the jump word in the buffer: nothing, or one more word
JumpTails == {<<>>, <<251, 255>>}

InitJump ==
    /\ pc = "start"
    /\ data \in {WordBytes(w) \o t : w \in JumpWords, t \in JumpTails}
    /\ addr = 0
    /\ register = 0
    /\ source = 0
    /\ result = NoResult
    /\ prev = NoResult

\* jxx_fix_offset applied to the 10-bit offset field of the first word
FixOffset ==
    /\ pc = "start"
    /\ pc' = "jxx_fix_offset"
    /\ result' = jxx_fix_offset(BitAnd(u16_from_le_bytes(data), JMP_OFFSET))
    /\ UNCHANGED <<data, addr, register, source, prev>>

NextJump == DecodeAt \/ FixOffset

SpecJump == InitJump /\ [][NextJump]_vars

(***************************************************************************)
(* Claims about conditional jumps, checked under SpecJump.                 *)
(***************************************************************************)
\* the 10-bit offset field and the condition field of the jump word
RawOffset(d) == (d[1] + 256 * d[2]) % 1024
JumpCond(d) == ((d[1] + 256 * d[2]) \div 1024) % 8

\* -((~raw) & 0x3FF) on ten bits: the complement of raw within 0..1023,
\* negated
NegatedComplement(raw) == -1 * (1023 - raw)

\* C13: for every first word with top three bits 001, decode returns the
\* jump selected by cond = (w >> 10) & 7 (0 Jnz, 1 Jz, 2 Jlo, 3 Jc, 4 Jn,
\* 5 Jge, 6 Jl, 7 Jmp), never a rejection, with offset = raw when bit 9 of
\* raw = w & 0x3FF is clear and -((~raw) & 0x3FF) when it is set; no byte
\* after the first word is read; jxx_fix_offset computes the same offset.
C13_JumpForm ==
    LET raw == RawOffset(data)
        offset == IF raw < 512 THEN raw ELSE NegatedComplement(raw)
    IN  /\ pc = "decoded_at" =>
              /\ result[1] = "Some"
              /\ result[2].condition
                    = <<"Jnz", "Jz", "Jlo", "Jc", "Jn", "Jge", "Jl", "Jmp">>[JumpCond(data) + 1]
              /\ result[2].offset = offset
              /\ result = decode(SubSeq(data, 1, 2), addr)
        /\ pc = "jxx_fix_offset" => result = offset

C13_Witness ==
    /\ pc = "decoded_at"
    /\ data = <<249, 35, 251, 255>>
    /\ result = Some([type |-> "JmpInstruction", condition |-> "Jnz", offset |-> -6])

\* C14: for every first word of the form 001CCCbbbbbbbbbb the decoded jump
\* offset is strictly negative if and only if bit 9 of the offset field
\* is 1.
C14_OffsetSign ==
    /\ pc = "decoded_at" => (result[2].offset < 0 <=> RawOffset(data) >= 512)
    /\ pc = "jxx_fix_offset" => (result < 0 <=> RawOffset(data) >= 512)

\* C15: the decoded jump offset is the 10-bit field sign-extended in two's
\* complement: raw when raw < 512 and raw - 1024 otherwise, and distinct
\* field values give distinct offsets.
C15_TwosComplement ==
    pc = "jxx_fix_offset" =>
        LET raw == RawOffset(data)
        IN  /\ result = IF raw < 512 THEN raw ELSE raw - 1024
            /\ \A other \in 0 .. 1023 :
                  other # raw => jxx_fix_offset(other) # result

(***************************************************************************)
(* Claims about the operand width, checked under SpecLib.                  *)
(***************************************************************************)
\* the buffer with bit 6 of the first word at the decode position inverted
FlipBit6(d, a) ==
    [d EXCEPT ![a + 1] = IF Bits(@, 6, 1) = 1 THEN @ - 64 ELSE @ + 64]

\* the width a decoded instruction exposes; the u8 a SingleOperand of
\* lib.rs keeps is read through From<u8> for OperandWidth
WidthOf(inst) ==
    IF inst.type = "SingleOperand" THEN OperandWidthFrom(inst.operand_width)
    ELSE IF inst.operand_width[1] = "Some" THEN inst.operand_width[2]
    ELSE inst.operand_width

\* C16: the operand width is bit 6 of the first word, 0 -> Word and
\* 1 -> Byte, for Rrc, Rra, Push and every two-operand instruction; Swpb,
\* Sxt, Call, Reti and the conditional jumps carry no width whatever bit 6
\* is (what they decode to does not vary with bit 6, and a jump has no
\* width field); the conversion is applied to 0 and 1 only.  (SpecLib)
C16_WidthLaw ==
    (pc = "decoded_at" /\ Len(data) >= addr + 2 /\ result[1] # "Panic") =>
        LET w == WordAt(data, addr)
            opcode == Bits(w, 7, 3)
            expected == IF Bits(w, 6, 1) = 0 THEN Word ELSE Byte
        IN  /\ (w \div 8192 = 0 /\ opcode \in {0, 2, 4}) =>
                  /\ result[1] \in {"Some", "Ok"}
                  /\ WidthOf(result[2]) = expected
            /\ (w \div 8192 = 0 /\ opcode \in {1, 3, 5, 6}) =>
                  result = decode(FlipBit6(data, addr), addr)
            /\ w \div 8192 = 1 =>
                  /\ result[1] \in {"Some", "Ok"}
                  /\ "operand_width" \notin DOMAIN result[2]
            /\ (w \div 8192 > 1 /\ IsOk(TwoOperandExpected(w, TailAt(data, addr)))) =>
                  /\ result[1] \in {"Some", "Ok"}
                  /\ WidthOf(result[2]) = expected

(***************************************************************************)
(* The emulation recognizer: a two-operand instruction is constructed and  *)
(* emulate() is applied to it.                                             *)
(***************************************************************************)
\* registers, signed payloads and unsigned payloads the operands are built
\* from
EmuRegisters == {0, 1, 2, 3, 5}
EmuIndexes == {-2, 2, 4}
EmuWords == {0, 1, 2, 4, 8, 65535}
EmuConstants == {0, 1, 2, 4, 8, -1}

\* operand values of every variant of enum Operand
Operands ==
    {RegisterDirect(r) : r \in EmuRegisters}
        \cup {Indexed(r, i) : r \in EmuRegisters, i \in EmuIndexes}
        \cup {RegisterIndirect(r) : r \in EmuRegisters}
        \cup {RegisterIndirectAutoIncrement(r) : r \in EmuRegisters}
        \cup {Symbolic(i) : i \in EmuIndexes}
        \cup {Immediate(u) : u \in EmuWords}
        \cup {Absolute(u) : u \in EmuWords}
        \cup {Constant(c) : c \in EmuConstants}

InitEmulate ==
    /\ pc = "start"
    /\ data = <<>>
    /\ addr = 0
    /\ register = 0
    /\ source = 0
    /\ result = NoResult
    /\ prev = NoResult

\* $t::new(source, operand_width, destination) for one of the twelve
\* two-operand types
New ==
    /\ pc = "start"
    /\ \E t \in TwoOperandTypes, src \in Operands, width \in {Word, Byte}, dst \in Operands :
          prev' = TwoOperandNew(t, src, width, dst)
    /\ pc' = "new"
    /\ UNCHANGED <<data, addr, register, source, result>>

\* emulate() on the instruction constructed
Emulate ==
    /\ pc = "new"
    /\ result' = emulate(prev)
    /\ pc' = "emulated"
    /\ UNCHANGED <<data, addr, register, source, prev>>

NextEmulate == New \/ Emulate

SpecEmulate == InitEmulate /\ [][NextEmulate]_vars

(***************************************************************************)
(* Claims about emulation, checked under SpecEmulate.                      *)
(***************************************************************************)
\* C17: for every two-operand instruction I for which emulate() returns an
\* alias A, the original stored in A equals I field for field and
\* A.size() = I.size() = 2 + source.size() + destination.size().
C17_AliasSize ==
    (pc = "emulated" /\ result[1] = "Some") =>
        LET A == result[2]
        IN  /\ A.original = prev
            /\ InstructionSize(A) = InstructionSize(prev)
            /\ InstructionSize(prev)
                  = 2 + OperandSize(prev.source) + OperandSize(prev.destination)

C17_Witness ==
    /\ pc = "emulated"
    /\ prev = TwoOperandNew("Mov", Immediate(0), Word, RegisterDirect(5))
    /\ result[1] = "Some"
    /\ result[2].type = "Clr"
    /\ InstructionSize(result[2]) = 4

\* the alias named t with the destination and width given, over the
\* instruction emulated
Alias(t, dst, width) ==
    Some([type |-> t, destination |-> dst, operand_width |-> width, original |-> prev])

\* C18: Mov emulation takes the first rule that matches, in this order:
\* (1) src = Constant(0) and dst = RegisterDirect(3) -> Nop; (2) src =
\* Constant(0) or Immediate(0) and dst = RegisterDirect(any) -> Clr(dst);
\* (3) src = RegisterIndirectAutoIncrement(1) and dst = RegisterDirect(0)
\* -> Ret; (4) src = RegisterIndirectAutoIncrement(1) and any other dst ->
\* Pop(dst, width); (5) dst = RegisterDirect(0) -> Br(src); else None.
C18_MovRules ==
    (pc = "emulated" /\ prev.type = "Mov") =>
        LET src == prev.source
            dst == prev.destination
            rule1 == src = Constant(0) /\ dst = RegisterDirect(3)
            rule2 == src \in {Constant(0), Immediate(0)} /\ dst[1] = "RegisterDirect"
            rule3 == src = RegisterIndirectAutoIncrement(1) /\ dst = RegisterDirect(0)
            rule4 == src = RegisterIndirectAutoIncrement(1) /\ dst # RegisterDirect(0)
            rule5 == dst = RegisterDirect(0)
        IN  result = CASE rule1 -> Alias("Nop", None, None)
                       [] ~rule1 /\ rule2 -> Alias("Clr", Some(dst), None)
                       [] ~rule1 /\ ~rule2 /\ rule3 -> Alias("Ret", None, None)
                       [] ~rule1 /\ ~rule2 /\ ~rule3 /\ rule4 ->
                            Alias("Pop", Some(dst), Some(prev.operand_width))
                       [] ~rule1 /\ ~rule2 /\ ~rule3 /\ ~rule4 /\ rule5 ->
                            Alias("Br", Some(src), None)
                       [] OTHER -> None

C18_Witness ==
    /\ pc = "emulated"
    /\ prev = TwoOperandNew("Mov", Constant(0), Word, RegisterDirect(3))
    /\ result[1] = "Some"
    /\ result[2].type = "Nop"

\* src = dst spelled out: the same variant with the same register and the
\* same index, displacement or address payload
SameOperand(a, b) ==
    /\ a[1] = b[1]
    /\ a[2] = b[2]
    /\ a[1] = "Indexed" => a[3] = b[3]

\* C19: Add: src = Constant(1) -> Inc(dst); else src = Constant(2) ->
\* Incd(dst); else src = dst -> Rla(dst, width); else None.  Addc: src =
\* Constant(0) -> Adc(dst, width); else src = dst -> Rlc(dst, width); else
\* None.  src = dst is structural.
C19_AddRules ==
    /\ (pc = "emulated" /\ prev.type = "Add") =>
          result = CASE prev.source = Constant(1) -> Alias("Inc", Some(prev.destination), None)
                     [] prev.source = Constant(2) -> Alias("Incd", Some(prev.destination), None)
                     [] prev.source \notin {Constant(1), Constant(2)}
                          /\ SameOperand(prev.source, prev.destination) ->
                          Alias("Rla", Some(prev.destination), Some(prev.operand_width))
                     [] OTHER -> None
    /\ (pc = "emulated" /\ prev.type = "Addc") =>
          result = CASE prev.source = Constant(0) ->
                          Alias("Adc", Some(prev.destination), Some(prev.operand_width))
                     [] prev.source # Constant(0)
                          /\ SameOperand(prev.source, prev.destination) ->
                          Alias("Rlc", Some(prev.destination), Some(prev.operand_width))
                     [] OTHER -> None

C19_Witness ==
    /\ pc = "emulated"
    /\ prev = TwoOperandNew("Add", Indexed(5, 2), Byte, Indexed(5, 2))
    /\ result[1] = "Some"
    /\ result[2].type = "Rla"
    /\ result[2].operand_width = Some(Byte)

\* C20: Bic with dst = RegisterDirect(2) and src = Constant(1), (2), (4),
\* (8) is rewritten to Clrc, Clrn, Clrz, Dint; Bis with the same operands
\* to Setc, Setz, Setn, Eint; each alias carries no destination and no
\* width; with any other destination or source (an Immediate of the same
\* value included) Bic and Bis are not emulated.
C20_StatusBitRules ==
    (pc = "emulated" /\ prev.type \in {"Bic", "Bis"}) =>
        LET matches == /\ prev.destination = RegisterDirect(2)
                       /\ prev.source \in {Constant(1), Constant(2), Constant(4), Constant(8)}
            names == IF prev.type = "Bic"
                     THEN [c \in {1, 2, 4, 8} |->
                             CASE c = 1 -> "Clrc" [] c = 2 -> "Clrn" [] c = 4 -> "Clrz" [] c = 8 -> "Dint"]
                     ELSE [c \in {1, 2, 4, 8} |->
                             CASE c = 1 -> "Setc" [] c = 2 -> "Setz" [] c = 4 -> "Setn" [] c = 8 -> "Eint"]
        IN  result = IF matches THEN Alias(names[prev.source[2]], None, None) ELSE None

C20_Witness ==
    /\ pc = "emulated"
    /\ prev = TwoOperandNew("Bis", Constant(4), Word, RegisterDirect(2))
    /\ result[1] = "Some"
    /\ result[2].type = "Setn"
    /\ result[2].destination = None
    /\ result[2].operand_width = None

\* C21: Subc with src = Constant(0) -> Sbc; Sub with src = Constant(1) ->
\* Dec and src = Constant(2) -> Decd; Cmp with src = Constant(0) -> Tst;
\* Dadd with src = Constant(0) -> Dadc; Xor with src = Constant(-1) -> Inv;
\* each carries (dst, width) and fires for every destination; for every
\* other source these return None, and Bit and And are never emulated.
C21_SingleTrigger ==
    pc = "emulated" =>
        LET trigger == [Subc |-> <<0, "Sbc">>, Cmp |-> <<0, "Tst">>,
                        Dadd |-> <<0, "Dadc">>, Xor |-> <<-1, "Inv">>]
            dst == Some(prev.destination)
            width == Some(prev.operand_width)
        IN  /\ prev.type \in DOMAIN trigger =>
                  result = IF prev.source = Constant(trigger[prev.type][1])
                           THEN Alias(trigger[prev.type][2], dst, width)
                           ELSE None
            /\ prev.type = "Sub" =>
                  result = CASE prev.source = Constant(1) -> Alias("Dec", dst, width)
                             [] prev.source = Constant(2) -> Alias("Decd", dst, width)
                             [] OTHER -> None
            /\ prev.type \in {"Bit", "And"} => result = None

C21_Witness ==
    /\ pc = "emulated"
    /\ prev = TwoOperandNew("Xor", Constant(-1), Byte, Indexed(5, -2))
    /\ result[1] = "Some"
    /\ result[2].type = "Inv"
    /\ result[2].destination = Some(Indexed(5, -2))
    /\ result[2].operand_width = Some(Byte)

(***************************************************************************)
(* Claims about the operands the parsers return, checked under SpecParse.  *)
(***************************************************************************)
\* the operand a successful parse returned
ParsedOperand == IF pc = "parse_source" THEN result[2][1] ELSE result[2]

\* a parse of an encodable register that succeeded
ParsedOk ==
    /\ pc \in {"parse_source", "parse_destination"}
    /\ register \in 0 .. 15
    /\ IsOk(result)

\* the data-model invariants, the registers allowed for Indexed given
OperandInvariants(operand, indexed_registers) ==
    /\ operand[1] = "RegisterDirect" => operand[2] \in 0 .. 15
    /\ operand[1] = "Indexed" => operand[2] \in indexed_registers
    /\ operand[1] = "RegisterIndirect" => operand[2] \in {0, 1} \cup (4 .. 15)
    /\ operand[1] = "RegisterIndirectAutoIncrement" => operand[2] \in {1} \cup (4 .. 15)
    /\ operand[1] = "Constant" => operand[2] \in {-1, 0, 1, 2, 4, 8}

\* C22: every operand returned by parse_source or parse_destination, over
\* registers 0..15, all mode bits and all tails, has a RegisterDirect
\* register in 0..15, an Indexed register that is 1 or in 4..15, a
\* RegisterIndirect register that is 0, 1 or in 4..15, a
\* RegisterIndirectAutoIncrement register that is 1 or in 4..15, and a
\* Constant value among -1, 0, 1, 2, 4, 8.
C22_OperandInvariants ==
    ParsedOk => OperandInvariants(ParsedOperand, {1} \cup (4 .. 15))

\* C22 as amended: the same, except that an Indexed operand returned by
\* parse_destination has a register that is 1 or in 3..15.
C22_OperandInvariantsAmended ==
    ParsedOk =>
        OperandInvariants(ParsedOperand,
                          IF pc = "parse_source" THEN {1} \cup (4 .. 15)
                          ELSE {1} \cup (3 .. 15))

C22_Witness ==
    /\ pc = "parse_destination"
    /\ register = 3 /\ source = 1 /\ data = <<0, 128, 255>>
    /\ result = Ok(Indexed(3, -32768))

\* parse_source returns the operand for some register, as_bits and tail;
\* the payload of an operand is the first word of the tail it was parsed
\* from, so the tails to try are that of the destination parse and the
\* empty one
ReturnedBySource(operand) ==
    \E reg \in 0 .. 15, as_bits \in 0 .. 3, tail \in {data, <<>>} :
        LET parsed == parse_source(reg, as_bits, tail)
        IN  IsOk(parsed) /\ parsed[2][1] = operand

DisplayWords ==
    {0, 1, 2, 4, 9, 10, 15, 16, 255, 17408, 32767, 32768, 32769, 65531, 65534, 65535}

\* every operand parse_source or parse_destination returns for a register
\* 0..15, valid mode bits and one of the extension words
ParsedOperands ==
    {parse_source(r, as_bits, WordBytes(v))[2][1] :
        r \in 0 .. 15, as_bits \in 0 .. 3, v \in DisplayWords}
        \cup {parse_destination(r, ad_bit, WordBytes(v))[2] :
                 r \in 0 .. 15, ad_bit \in 0 .. 1, v \in DisplayWords}

\* operands of the instructions rendered
InstructionOperands ==
    {RegisterDirect(0), RegisterDirect(2), RegisterDirect(3), RegisterDirect(5),
     RegisterDirect(15), Indexed(5, -2), Indexed(1, 4), RegisterIndirect(4),
     RegisterIndirectAutoIncrement(1), Symbolic(-5), Immediate(0), Immediate(2),
     Absolute(17408), Constant(0), Constant(1), Constant(2), Constant(4), Constant(8),
     Constant(-1)}

TwoOperandInstructions ==
    {TwoOperandNew(t, src, width, dst) :
        t \in TwoOperandTypes, src \in InstructionOperands, width \in {Word, Byte},
        dst \in InstructionOperands}

SingleOperandInstructions ==
    {SingleOperandNew(t, src, Some(width)) :
        t \in {"Rrc", "Rra", "Push"}, src \in InstructionOperands, width \in {Word, Byte}}
        \cup {SingleOperandNew(t, src, None) :
                 t \in {"Swpb", "Sxt", "Call"}, src \in InstructionOperands}
        \cup {RetiNew}

InitDisplay ==
    /\ pc = "start"
    /\ data = <<>>
    /\ addr = 0
    /\ register = 0
    /\ source = 0
    /\ result = NoResult
    /\ prev = NoResult

\* operand.to_string()
RenderOperand ==
    /\ pc = "start"
    /\ \E operand \in ParsedOperands, overflow_checks \in BOOLEAN :
          /\ prev' = operand
          /\ result' = OperandDisplay(operand, overflow_checks)
    /\ pc' = "operand_rendered"
    /\ UNCHANGED <<data, addr, register, source>>

\* to_string() of a single-operand instruction or Reti
RenderSingleOperand ==
    /\ pc = "start"
    /\ \E inst \in SingleOperandInstructions, overflow_checks \in BOOLEAN :
          /\ prev' = inst
          /\ result' = InstructionDisplay(inst, overflow_checks)
    /\ pc' = "instruction_rendered"
    /\ UNCHANGED <<data, addr, register, source>>

\* to_string() of a two-operand instruction
RenderTwoOperand ==
    /\ pc = "start"
    /\ \E inst \in TwoOperandInstructions, overflow_checks \in BOOLEAN :
          /\ prev' = inst
          /\ result' = InstructionDisplay(inst, overflow_checks)
    /\ pc' = "instruction_rendered"
    /\ UNCHANGED <<data, addr, register, source>>

\* to_string() of the alias emulate() returns for a two-operand
\* instruction
RenderEmulated ==
    /\ pc = "start"
    /\ \E inst \in TwoOperandInstructions, overflow_checks \in BOOLEAN :
          /\ emulate(inst)[1] = "Some"
          /\ prev' = emulate(inst)[2]
          /\ result' = InstructionDisplay(emulate(inst)[2], overflow_checks)
    /\ pc' = "instruction_rendered"
    /\ UNCHANGED <<data, addr, register, source>>

NextDisplay == RenderOperand \/ RenderSingleOperand \/ RenderTwoOperand \/ RenderEmulated

SpecDisplay == InitDisplay /\ [][NextDisplay]_vars

(***************************************************************************)
(* Claims about rendering, checked under SpecDisplay.                      *)
(***************************************************************************)
\* the lowercase mnemonic of every instruction type
LowercaseMnemonic ==
    [Rrc |-> "rrc", Swpb |-> "swpb", Rra |-> "rra", Sxt |-> "sxt", Push |-> "push",
     Call |-> "call", Reti |-> "reti",
     Mov |-> "mov", Add |-> "add", Addc |-> "addc", Subc |-> "subc", Sub |-> "sub",
     Cmp |-> "cmp", Dadd |-> "dadd", Bit |-> "bit", Bic |-> "bic", Bis |-> "bis",
     Xor |-> "xor", And |-> "and",
     Adc |-> "adc", Br |-> "br", Clr |-> "clr", Clrc |-> "clrc", Clrn |-> "clrn",
     Clrz |-> "clrz", Dadc |-> "dadc", Dec |-> "dec", Decd |-> "decd", Dint |-> "dint",
     Eint |-> "eint", Inc |-> "inc", Incd |-> "incd", Inv |-> "inv", Nop |-> "nop",
     Pop |-> "pop", Ret |-> "ret", Rla |-> "rla", Rlc |-> "rlc", Sbc |-> "sbc",
     Setc |-> "setc", Setn |-> "setn", Setz |-> "setz", Tst |-> "tst"]

\* the text of an operand of a rendered instruction
OperandText(operand) == OperandDisplay(operand, TRUE)[2]

\* C23: an instruction renders as its lowercase mnemonic, then `.b` if and
\* only if it bears a width and the width is Byte, then its operands
\* (`mnem src, dst` for two-operand, `mnem src` for single-operand); an
\* alias renders with its own lowercase mnemonic followed by the
\* destination only when it carries one, so Nop renders exactly `nop`.
C23_Rendering ==
    pc = "instruction_rendered" =>
        LET inst == prev
            byte == IF inst.type \in TwoOperandTypes THEN inst.operand_width = Byte
                    ELSE "operand_width" \in DOMAIN inst /\ inst.operand_width = Some(Byte)
            mnemonic == LowercaseMnemonic[inst.type] \o (IF byte THEN ".b" ELSE "")
            operands ==
                CASE inst.type \in TwoOperandTypes ->
                       " " \o OperandText(inst.source) \o ", " \o OperandText(inst.destination)
                  [] inst.type \in SingleOperandTypes -> " " \o OperandText(inst.source)
                  [] inst.type = "Reti" -> ""
                  [] OTHER -> IF inst.destination = None THEN ""
                              ELSE " " \o OperandText(inst.destination[2])
        IN  result = Ok(mnemonic \o operands)

\* the name map of the registers: r0 -> pc, r1 -> sp, r2 -> sr, r3 -> cg,
\* rN otherwise
RegisterName(r) ==
    CASE r = 0 -> "pc"
      [] r = 1 -> "sp"
      [] r = 2 -> "sr"
      [] r = 3 -> "cg"
      [] OTHER -> "r" \o decimal(r)

\* `0xK` for a value that is not negative and `-0xK`, K the absolute
\* value, for a negative one
SignedHex(i) == IF i >= 0 THEN "0x" \o lower_hex(i) ELSE "-0x" \o lower_hex(-1 * i)

\* C24: Immediate(u) renders as `#0x` followed by the unsigned hexadecimal
\* of u, with no minus sign, for every u; an Indexed, Symbolic or Constant
\* operand with a negative value i renders `-0xK`, K the absolute value of
\* i, also for -32768, and no rendering ends in an arithmetic overflow.
C24_NumericRendering ==
    pc = "operand_rendered" =>
        CASE prev[1] = "Immediate" -> result = Ok("#0x" \o lower_hex(prev[2]))
          [] prev[1] = "Indexed" ->
               result = Ok(SignedHex(prev[3]) \o "(" \o RegisterName(prev[2]) \o ")")
          [] prev[1] = "Symbolic" -> result = Ok("#" \o SignedHex(prev[2]) \o "(pc)")
          [] prev[1] = "Constant" -> result = Ok("#" \o SignedHex(prev[2]))
          [] OTHER -> result[1] = "Ok"

\* C25: every register-bearing operand renders its register through the
\* name map r0 -> pc, r1 -> sp, r2 -> sr, r3 -> cg, rN otherwise:
\* RegisterIndirect(r) renders `@rname`, RegisterIndirectAutoIncrement(r)
\* `@rname+` and Indexed(r, i) `i(rname)`, so that RegisterIndirect(0)
\* renders `@pc`; no operand a parser returns reaches an unreachable arm.
C25_RegisterNames ==
    pc = "operand_rendered" =>
        /\ result # Panic("unreachable")
        /\ CASE prev[1] = "RegisterDirect" -> result = Ok(RegisterName(prev[2]))
             [] prev[1] = "RegisterIndirect" -> result = Ok("@" \o RegisterName(prev[2]))
             [] prev[1] = "RegisterIndirectAutoIncrement" ->
                  result = Ok("@" \o RegisterName(prev[2]) \o "+")
             [] prev[1] = "Indexed" ->
                  result[1] = "Ok" =>
                      result = Ok(SignedHex(prev[3]) \o "(" \o RegisterName(prev[2]) \o ")")
             [] OTHER -> TRUE

(***************************************************************************)
(* The two decoders of a source operand applied to the same single-operand *)
(* word and tail: decode(data, 0) of lib.rs, then parse_source on the      *)
(* register and mode bits of the word and the bytes after it.              *)
(***************************************************************************)
\* every single-operand first word: opcode 0..7, both widths, AS 0..3,
\* register 0..15
SingleOperandWords == 4096 .. 5119

\* the bytes after the first word
SourceTails == ExtTails \cup {WordBytes(v) : v \in DisplayWords}

InitSource ==
    /\ pc = "start"
    /\ addr = 0
    /\ data \in {WordBytes(w) \o t : w \in SingleOperandWords, t \in SourceTails}
    /\ register = 0
    /\ source = 0
    /\ result = NoResult
    /\ prev = NoResult

\* parse_source on the fields of the word decode was given; the result of
\* decode is kept in prev
ParseSourceAt ==
    /\ pc = "decoded_at"
    /\ Len(data) >= addr + 2
    /\ pc' = "parsed_at"
    /\ prev' = result
    /\ result' = LET w == u16_from_le_bytes(split_at_2(SubSeq(data, addr + 1, addr + 2))[1])
                 IN  parse_source(Bits(w, 0, 4), Bits(w, 4, 2),
                                  SubSeq(data, addr + 3, Len(data)))
    /\ UNCHANGED <<data, addr, register, source>>

NextSource == DecodeAt \/ ParseSourceAt

SpecSource == InitSource /\ [][NextSource]_vars

\* v unchanged when bit 15 is clear and -(~v) when it is set
Complemented(v) == IF v < 32768 THEN v ELSE -1 * (65535 - v)

\* the single-operand instruction lib.rs builds
LibSingleOperand(opcode, mode, width) ==
    [type |-> "SingleOperand", opcode |-> opcode, addressing_mode |-> mode,
     operand_width |-> width]

\* C26: decode(data, addr) of lib.rs converts the extension word v of an
\* Indexed, Symbolic or Immediate source by ones_complement, v unchanged
\* when bit 15 is clear and -(~v) when it is set, and keeps an Absolute
\* extension word unsigned: [0x19,0x10,0xfb,0xff] decodes to Rrc with
\* Indexed(9, -4), for byte width too, and [0x19,0x10,0x04,0x00] to
\* Indexed(9, 4).
C26_OnesComplementWord ==
    (pc = "decoded_at" /\ Len(data) >= 4 /\ WordAt(data, 0) \in SingleOperandWords) =>
        LET w == WordAt(data, 0)
            reg == w % 16
            as == (w \div 16) % 4
            v == TailWord(TailAt(data, 0))
            mode == result[2].addressing_mode
        IN  /\ (as = 1 /\ reg \notin {0, 2, 3} /\ (w \div 128) % 8 # 7) =>
                   result[1] = "Some" /\ mode = Some(Indexed(reg, Complemented(v)))
            /\ (as = 1 /\ reg = 0 /\ (w \div 128) % 8 # 7) =>
                   result[1] = "Some" /\ mode = Some(Symbolic(Complemented(v)))
            /\ (as = 3 /\ reg = 0 /\ (w \div 128) % 8 # 7) =>
                   result[1] = "Some" /\ mode = Some(Immediate(Complemented(v)))
            /\ (as = 1 /\ reg = 2 /\ (w \div 128) % 8 # 7) =>
                   result[1] = "Some" /\ mode = Some(Absolute(v))
            /\ data = <<25, 16, 251, 255>> =>
                   result = Some(LibSingleOperand(RRC_OPCODE, Some(Indexed(9, -4)), 0))
            /\ data = <<89, 16, 251, 255>> =>
                   result = Some(LibSingleOperand(RRC_OPCODE, Some(Indexed(9, -4)), 1))
            /\ data = <<25, 16, 4, 0>> =>
                   result = Some(LibSingleOperand(RRC_OPCODE, Some(Indexed(9, 4)), 0))

C26_Witness ==
    /\ pc = "decoded_at"
    /\ data = <<25, 16, 251, 255>>
    /\ result = Some(LibSingleOperand(RRC_OPCODE, Some(Indexed(9, -4)), 0))

\* C28: for every single-operand first word with opcode 0..5 and every
\* tail, the addressing mode decode(data, addr) of lib.rs computes is the
\* operand parse_source returns for the register and mode bits of the word
\* and the tail (same variant, register and payload), and decode produces
\* no instruction exactly when parse_source returns an error.
C28_DecodersAgree ==
    (pc = "parsed_at" /\ (WordAt(data, 0) \div 128) % 8 \in 0 .. 5) =>
        /\ IsOk(result) => prev[1] = "Some" /\ SourceOf(prev[2]) = Some(result[2][1])
        /\ IsErr(result) <=> prev[1] # "Some"

(***************************************************************************)
(* The stream walk of section 6 of the specification: starting at          *)
(* position 0, decode at the current position, halt on a decode error or   *)
(* at the end of the input, otherwise advance by the size of the decoded   *)
(* instruction.  addr is the position; prev holds the position before the  *)
(* last decode and the number of decodes made.                             *)
(***************************************************************************)
\* largest number of words a walked buffer is built from
MaxWalk == 3

\* jmp; reti; push #imm (one extension word); mov x(r4), y(r5) (two
\* extension words); opcode 7
WalkWords == {15360, 4864, 4656, 17557, 896}

\* the bytes of a sequence of words
RECURSIVE WordsBytes(_)
WordsBytes(ws) == IF ws = <<>> THEN <<>> ELSE WordBytes(Head(ws)) \o WordsBytes(Tail(ws))

\* walked buffers: whole words, or whole words and one more byte
WalkBuffers ==
    {WordsBytes(ws) \o odd : ws \in SeqsUpTo(WalkWords, MaxWalk), odd \in {<<>>, <<0>>}}

InitWalk ==
    /\ pc = "walk"
    /\ data \in WalkBuffers
    /\ addr = 0
    /\ register = 0
    /\ source = 0
    /\ result = NoResult
    /\ prev = [position |-> 0, decodes |-> 0]

\* one pass of the loop before the end of the input: decode at the
\* position, halt on an error, otherwise advance by size()
Step ==
    /\ pc = "walk"
    /\ addr < Len(data)
    /\ LET decoded == decode_instruction(SubSeq(data, addr + 1, Len(data)))
       IN  /\ result' = decoded
           /\ prev' = [position |-> addr, decodes |-> prev.decodes + 1]
           /\ IF IsErr(decoded)
              THEN pc' = "halted" /\ addr' = addr
              ELSE pc' = "walk" /\ addr' = addr + InstructionSize(decoded[2])
    /\ UNCHANGED <<data, register, source>>

\* the loop ends at the end of the input
Halt ==
    /\ pc = "walk"
    /\ addr = Len(data)
    /\ pc' = "halted"
    /\ UNCHANGED <<data, addr, register, source, result, prev>>

NextWalk == Step \/ Halt

\* the loop is sequential code that keeps running until it halts
SpecWalk == InitWalk /\ [][NextWalk]_vars /\ WF_vars(NextWalk)

\* the position is even, within the buffer, and greater than before the
\* last decode when that decode returned an instruction
WalkPosition ==
    /\ addr % 2 = 0
    /\ addr <= Len(data)
    /\ (prev.decodes > 0 /\ IsOk(result)) => addr > prev.position

C30_AliasShape ==
    (pc = "emulated" /\ result[1] = "Some") =>
        LET alias == result[2]
        IN  /\ \/ alias.destination = None /\ alias.operand_width = None
               \/ alias.destination[1] = "Some"
            /\ \A overflow_checks \in BOOLEAN :
                   EmulatedDisplay(alias, overflow_checks)
                       # Panic("called Option::unwrap() on a None value")

C30_Witness ==
    /\ pc = "emulated"
    /\ prev = TwoOperandNew("Cmp", Constant(0), Byte, RegisterDirect(5))
    /\ result[1] = "Some"
    /\ result[2].type = "Tst"
    /\ result[2].destination = Some(RegisterDirect(5))
    /\ result[2].operand_width = Some(Byte)
    /\ EmulatedDisplay(result[2], TRUE) = Ok("tst.b r5")

====
